---- MODULE Spec2Model ----
(***************************************************************************)
(* River monitoring system: the MQTT logger (receivetopkl.py), the offline *)
(* trainer (retrain_model.py) and the Streamlit dashboard                  *)
(* (app_streamlit.py), sharing two files: the reading log                  *)
(* river_data_log.csv and the model artifact decision_tree.pkl.            *)
(*                                                                         *)
(* Numbers are integers: levels in cm, temperatures in degrees, humidity   *)
(* in percent, a confidence in percent (0.8 is 80).  A quotient is kept as *)
(* the pair of its numerator and denominator.  An optional value (Python's *)
(* None) is the empty sequence, a present value v is <<v>>.                *)
(***************************************************************************)
EXTENDS Integers, Sequences, FiniteSets, TLC

VARIABLES
    csvExists,      \* river_data_log.csv exists on disk
    log,            \* its data rows, in append order (the header is not a row)
    loggerUp,       \* receivetopkl.py has run its module-level set-up
    mqttPc,         \* on_message: "idle", "open" (file open for append), "torn"
    pending,        \* the row on_message is writing, <<>> when none
    handled,        \* the last payload on_message got and what it printed
    modelFile,      \* decision_tree.pkl: [st, kind, ver, old]
    retrainPc,      \* retrain_model: "idle", "opened", "dumped"
    nRetrain,       \* completed retraining runs
    dashPc,         \* main(): "idle", "reading" (read_csv in progress), "loaded"
    STANDARD_WATER_HEIGHT, \* the sidebar value read by this script run
    df,             \* load_data()'s frame for this script run
    dataCache,      \* st.cache_data entry of load_data: <<>> or <<frame>>
    modelCache,     \* st.cache_resource entry of load_model: [loaded, kind, ver]
    tornRead,       \* the partly written row this run's read_csv saw, if any
    cycle           \* what the last script run did (its inputs and its outcome)

vars == <<csvExists, log, loggerUp, mqttPc, pending, handled, modelFile,
          retrainPc,
          nRetrain, dashPc, STANDARD_WATER_HEIGHT, df, dataCache, modelCache,
          tornRead, cycle>>

storeVars == <<csvExists, log, loggerUp, mqttPc, pending, handled>>
trainVars == <<modelFile, retrainPc, nRetrain>>
dashVars  == <<dashPc, STANDARD_WATER_HEIGHT, df, dataCache, modelCache,
               tornRead, cycle>>

---------------------------------------------------------------------------
(* Bounds of the model *)

\* rows one logger run appends on top of the log it found
MaxAppend == 1
\* retraining runs
MaxRetrain == 1
\* rows of a history the pipeline specification starts from
MaxHist == 1
\* rows of a log the feature specification starts from
MaxLog == 3

---------------------------------------------------------------------------
(* Program constants *)

TEMP_ALARM == 70
CONF_GATE == 80
WATER_MIN == 0
WATER_MAX == 1000
TEMP_MIN == -10
TEMP_MAX == 80
HUM_MIN == 0
HUM_MAX == 100
MIN_TRAIN_ROWS == 10
bahaya_threshold == 35
DEFAULT_HEIGHT == 50

LABELS == <<"Aman", "Waspada", "Bahaya">>
LabelSet == {LABELS[i] : i \in 1..3}

None == <<>>
Some(v) == <<v>>

\* pandas' NaN: a missing cell of the frame
NaN == 0 - 999999

TRow(ts, w, t, h, d, r) ==
    [timestamp |-> ts, water_level_cm |-> w, temperature_c |-> t,
     humidity_pct |-> h, danger_level |-> d, rain_level |-> r]

---------------------------------------------------------------------------
(* Inputs the model enumerates *)

Ok95   == TRow(95, 18, 25, 60, 0, 0)
Ok105  == TRow(105, 20, 25, 60, 0, 0)
Hot110 == TRow(110, 40, 75, 60, 2, 1)
Bad115 == TRow(115, 30, 85, 60, 1, 0)

\* the readings a well-formed message can carry
Readings == {Ok95, Ok105, Hot110, Bad115}

\* a reading whose water level fails the range check, stamped between two
\* valid ones
Bad100 == TRow(100, 1200, 25, 60, 0, 0)
LogReadings == Readings \cup {Bad100}

\* a log of ten valid labelled readings, what an earlier logger run left
BaseHistory ==
    [i \in 1..MIN_TRAIN_ROWS |->
        TRow(10 * i - 10, 5 + i, 25, 60, i % 3, i % 2)]

\* the values the operator may leave in the sidebar
Heights == {0, DEFAULT_HEIGHT}
ManualWater == {None, Some(40)}
ManualTemp == {None, Some(30), Some(75)}
ManualHumidity == {None, Some(40)}
ManualRain == {None, Some(0), Some(1)}
ManualDanger == {"None"} \cup LabelSet

OverrideSets ==
    [submit_manual : BOOLEAN, manual_water_level : ManualWater,
     manual_temp : ManualTemp, manual_humidity : ManualHumidity,
     manual_rain : ManualRain, manual_danger : ManualDanger]

NoOverride ==
    [submit_manual |-> FALSE, manual_water_level |-> None,
     manual_temp |-> None, manual_humidity |-> None, manual_rain |-> None,
     manual_danger |-> "None"]

\* what the opaque classifier answers: a label and, if it is probabilistic,
\* the largest class probability in percent
ConfLevels == {50, 80, 81}
ClfOutputs == [label : LabelSet, conf : ConfLevels]

---------------------------------------------------------------------------
(* load_data: app_streamlit.py lines 61-76 *)

\* pandas' Series.between(lo, hi): inclusive at both ends, False for NaN
Between(x, lo, hi) == x # NaN /\ lo <= x /\ x <= hi

\* sort_values("timestamp"): row i goes behind every row with a smaller
\* timestamp and every earlier row with the same one (on a frame this small
\* the sort keeps ties in file order)
SortByTimestamp(s) ==
    LET before(i) ==
            {j \in 1..Len(s) :
                \/ s[j].timestamp < s[i].timestamp
                \/ s[j].timestamp = s[i].timestamp /\ j < i}
    IN  [k \in 1..Len(s) |->
            s[CHOOSE i \in 1..Len(s) : Cardinality(before(i)) = k - 1]]

\* the range check without the upper limit of the temperature
InRange_NoUpperTemp(r) ==
    /\ Between(r.water_level_cm, WATER_MIN, WATER_MAX)
    /\ r.temperature_c # NaN /\ TEMP_MIN <= r.temperature_c
    /\ Between(r.humidity_pct, HUM_MIN, HUM_MAX)

\* the range check and noise filter of one row
InRange(r) ==
    /\ Between(r.water_level_cm, WATER_MIN, WATER_MAX)
    /\ Between(r.temperature_c, TEMP_MIN, TEMP_MAX)
    /\ Between(r.humidity_pct, HUM_MIN, HUM_MAX)

RangeFilter(s) == SelectSeq(s, InRange)

\* fillna(method="ffill").fillna(method="bfill") of one column c at row i:
\* the last value above it, else the first value below it, else still NaN
FillCell(s, i, c) ==
    LET above == {j \in 1..(i - 1) : s[j][c] # NaN}
        below == {j \in (i + 1)..Len(s) : s[j][c] # NaN}
    IN  IF s[i][c] # NaN THEN s[i][c]
        ELSE IF above # {}
             THEN s[CHOOSE j \in above : \A k \in above : k <= j][c]
        ELSE IF below # {}
             THEN s[CHOOSE j \in below : \A k \in below : j <= k][c]
        ELSE NaN

FillNa(s) ==
    [i \in 1..Len(s) |-> [c \in DOMAIN s[i] |-> FillCell(s, i, c)]]

\* the derived columns: water_level_norm, water_rise_rate (diff, 0 on the
\* first row) and rain
Derive(s, swh) ==
    [i \in 1..Len(s) |->
        [timestamp |-> s[i].timestamp,
         water_level_cm |-> s[i].water_level_cm,
         temperature_c |-> s[i].temperature_c,
         humidity_pct |-> s[i].humidity_pct,
         danger_level |-> s[i].danger_level,
         rain_level |-> s[i].rain_level,
         water_level_norm |-> [num |-> s[i].water_level_cm, den |-> swh],
         water_rise_rate |->
            IF i = 1 THEN 0
            ELSE s[i].water_level_cm - s[i - 1].water_level_cm,
         rain |-> IF s[i].rain_level # NaN /\ s[i].rain_level > 0
                  THEN 1 ELSE 0]]

\* load_data with the derived columns computed before the range check
load_data_DiffBeforeFilter(rows, swh) ==
    CHOOSE frame \in
        {RangeFilter(derived) :
            derived \in {Derive(filled, swh) :
                filled \in {FillNa(sorted) :
                    sorted \in {SortByTimestamp(rows)}}}} : TRUE

\* the frame load_data returns for the rows read_csv returned: the rows
\* sorted, then filtered, then filled, then given their derived columns
load_data(rows, swh) ==
    CHOOSE frame \in
        {Derive(filled, swh) :
            filled \in {FillNa(kept) :
                kept \in {RangeFilter(sorted) :
                    sorted \in {SortByTimestamp(rows)}}}} : TRUE

\* What read_csv can see of a row whose bytes are only partly in the file:
\* the text is cut after the water level, after the humidity (whole, or in
\* the middle of its digits) or after the danger level; the cells that are
\* not there yet read as NaN.
TornRows(p) ==
    { [p EXCEPT !.temperature_c = NaN, !.humidity_pct = NaN,
                !.danger_level = NaN, !.rain_level = NaN],
      [p EXCEPT !.danger_level = NaN, !.rain_level = NaN],
      [p EXCEPT !.humidity_pct = p.humidity_pct \div 10,
                !.danger_level = NaN, !.rain_level = NaN],
      [p EXCEPT !.rain_level = NaN] }

---------------------------------------------------------------------------
(* The model artifact and the classifier *)

\* The artifact: st is "absent", "empty" (truncated), "partial" or
\* "complete"; kind and ver name the model it holds or is being given; old
\* is the model the file held when the write in progress began.
NoArtifact == [kind |-> "none", ver |-> 0]
NoFile  == [st |-> "absent", kind |-> "none", ver |-> 0, old |-> NoArtifact]
NoModel == [loaded |-> TRUE, kind |-> "none", ver |-> 0]
NotLoaded == [loaded |-> FALSE, kind |-> "none", ver |-> 0]

\* load_model: pickle.load of the artifact as it is on disk now; a missing,
\* empty or half-written file raises, and the except clause returns None
load_model(file) ==
    IF file.st = "complete"
    THEN [loaded |-> TRUE, kind |-> file.kind, ver |-> file.ver]
    ELSE NoModel

\* @st.cache_resource: the first call's return value (None included) is
\* kept for the life of the server process; nothing in the script clears it
cached_load_model(cache, file) ==
    IF cache.loaded THEN cache ELSE load_model(file)

\* the "normal prediction": predict_proba's maximum when the model has that
\* method, no confidence otherwise; clf is the opaque model's answer
Predict(model, clf) ==
    IF model.kind = "proba"
    THEN [pred |-> clf.label, confidence |-> Some(clf.conf)]
    ELSE [pred |-> clf.label, confidence |-> None]

---------------------------------------------------------------------------
(* main: app_streamlit.py lines 115-230 *)

Features(r) ==
    [water_level_norm |-> r.water_level_norm,
     water_rise_rate |-> r.water_rise_rate,
     rain |-> r.rain, humidity_pct |-> r.humidity_pct]

\* the manual values applied with the rise rate left as the sensor gave it
ApplyManual_KeepsRiseRate(latest, d, swh, ov) ==
    LET mw == ov.manual_water_level
        a == IF mw # None
             THEN [latest EXCEPT
                     !.water_level_norm = [num |-> mw[1], den |-> swh]]
             ELSE latest
        b == IF ov.manual_rain # None
             THEN [a EXCEPT !.rain = ov.manual_rain[1]] ELSE a
    IN  IF ov.manual_humidity # None
        THEN [b EXCEPT !.humidity_pct = ov.manual_humidity[1]] ELSE b

\* latest after the manual water level, rain and humidity (lines 163-169)
ApplyManual(latest, d, swh, ov) ==
    LET mw == ov.manual_water_level
        a == IF mw # None
             THEN [latest EXCEPT
                     !.water_level_norm = [num |-> mw[1], den |-> swh],
                     !.water_rise_rate =
                        IF Len(d) > 1
                        THEN mw[1] - d[Len(d) - 1].water_level_cm ELSE 0]
             ELSE latest
        b == IF ov.manual_rain # None
             THEN [a EXCEPT !.rain = ov.manual_rain[1]] ELSE a
    IN  IF ov.manual_humidity # None
        THEN [b EXCEPT !.humidity_pct = ov.manual_humidity[1]] ELSE b

\* temp_for_pred (lines 170, 185, 196): the manual temperature is assigned
\* first, and assigned over when no manual danger level is chosen
TempForPred(d, ov) ==
    LET sensor == d[Len(d)].temperature_c
    IN  IF ov.submit_manual /\ ov.manual_danger # "None"
           /\ ov.manual_temp # None
        THEN ov.manual_temp[1]
        ELSE sensor

\* lines 161-196 with the sidebar's values used whether or not the submit
\* button was pressed
Resolve_WithoutSubmit(d, swh, model, ov, clf) ==
    LET latest0 == Features(d[Len(d)])
        manual == ov.manual_danger # "None"
        p == IF manual
             THEN [pred |-> ov.manual_danger, confidence |-> None]
             ELSE Predict(model, clf)
    IN  IF ov.manual_water_level # None /\ swh = 0
        THEN [error |-> "ZeroDivisionError", latest |-> latest0,
              temp_for_pred |-> None, pred |-> "None", confidence |-> None,
              manual_applied |-> FALSE, clf_called |-> FALSE]
        ELSE [error |-> "none",
              latest |-> ApplyManual(latest0, d, swh, ov),
              temp_for_pred |->
                 Some(IF manual /\ ov.manual_temp # None
                      THEN ov.manual_temp[1]
                      ELSE d[Len(d)].temperature_c),
              pred |-> p.pred, confidence |-> p.confidence,
              manual_applied |-> manual, clf_called |-> ~manual]

\* lines 161-196: latest, temp_for_pred, pred and confidence
Resolve(d, swh, model, ov, clf) ==
    LET latest0 == Features(d[Len(d)])
        manual == ov.submit_manual /\ ov.manual_danger # "None"
        p == IF manual
             THEN [pred |-> ov.manual_danger, confidence |-> None]
             ELSE Predict(model, clf)
    IN  IF ov.submit_manual /\ ov.manual_water_level # None /\ swh = 0
        THEN [error |-> "ZeroDivisionError", latest |-> latest0,
              temp_for_pred |-> None, pred |-> "None", confidence |-> None,
              manual_applied |-> FALSE, clf_called |-> FALSE]
        ELSE [error |-> "none",
              latest |-> IF ov.submit_manual
                         THEN ApplyManual(latest0, d, swh, ov) ELSE latest0,
              temp_for_pred |-> Some(TempForPred(d, ov)),
              pred |-> p.pred, confidence |-> p.confidence,
              manual_applied |-> manual, clf_called |-> ~manual]

\* the horizon without the test of the rise rate
Horizon_NoRiseCheck(rise_rate, current_level) ==
    IF current_level < bahaya_threshold
    THEN Some([num |-> (bahaya_threshold - current_level) * 60,
               den |-> rise_rate])
    ELSE None

\* lines 198-207: the prediction horizon, in minutes, as a quotient
Horizon(rise_rate, current_level) ==
    IF rise_rate > 0 /\ current_level < bahaya_threshold
    THEN Some([num |-> (bahaya_threshold - current_level) * 60,
               den |-> rise_rate])
    ELSE None

\* the hybrid logic with the ML alert tried before the temperature
HybridBranch_AlertFirst(temp_for_pred, pred, confidence) ==
    IF pred = "Bahaya" /\ (confidence = None \/ confidence[1] > CONF_GATE)
    THEN "ml_alert"
    ELSE IF temp_for_pred > TEMP_ALARM THEN "forced"
    ELSE "prediction"

\* the hybrid logic with the confidence gate open at 0.8 itself
HybridBranch_GateInclusive(temp_for_pred, pred, confidence) ==
    IF temp_for_pred > TEMP_ALARM THEN "forced"
    ELSE IF pred = "Bahaya"
            /\ (confidence = None \/ confidence[1] >= CONF_GATE)
         THEN "ml_alert"
    ELSE "prediction"

\* lines 209-216: which branch of the hybrid logic is taken
HybridBranch(temp_for_pred, pred, confidence) ==
    IF temp_for_pred > TEMP_ALARM THEN "forced"
    ELSE IF pred = "Bahaya"
            /\ (confidence = None \/ confidence[1] > CONF_GATE)
         THEN "ml_alert"
    ELSE "prediction"

\* line 214 formats confidence with ":.2f" before anything is shown or
\* logged: with confidence None that raises TypeError
BranchError(branch, confidence) ==
    IF branch = "ml_alert" /\ confidence = None THEN "TypeError" ELSE "none"

NoCycle ==
    [outcome |-> "none", error |-> "none", branch |-> "none",
     pred |-> "None", confidence |-> None, temp_for_pred |-> None,
     latest |-> None, manual_applied |-> FALSE, clf_called |-> FALSE,
     horizon |-> None, ov |-> NoOverride, swh |-> DEFAULT_HEIGHT,
     model |-> NotLoaded]

Crashed(c, e) == [c EXCEPT !.outcome = "crash", !.error = e]

\* the script run from line 124 on, for the frame d, the model load_model
\* returned, the sidebar values ov and the classifier's answer clf
Main(d, swh, model, ov, clf) ==
    LET c0 == [NoCycle EXCEPT !.ov = ov, !.swh = swh]
    IN  IF d = <<>> THEN [c0 EXCEPT !.outcome = "waiting"]
        ELSE IF d[Len(d)].danger_level = NaN THEN Crashed(c0, "ValueError")
        ELSE
        LET c1 == [c0 EXCEPT !.model = model]
        IN  IF model.kind = "none" THEN [c1 EXCEPT !.outcome = "unavailable"]
            ELSE
            LET r == Resolve(d, swh, model, ov, clf)
                c2 == [c1 EXCEPT !.latest = Some(r.latest),
                                 !.temp_for_pred = r.temp_for_pred,
                                 !.pred = r.pred,
                                 !.confidence = r.confidence,
                                 !.manual_applied = r.manual_applied,
                                 !.clf_called = r.clf_called]
            IN  IF r.error # "none" THEN Crashed(c1, r.error)
                ELSE
                LET branch == HybridBranch(r.temp_for_pred[1], r.pred,
                                           r.confidence)
                    c3 == [c2 EXCEPT
                             !.branch = branch,
                             !.horizon =
                                Horizon(d[Len(d)].water_rise_rate,
                                        d[Len(d)].water_level_cm)]
                IN  IF BranchError(branch, r.confidence) # "none"
                    THEN Crashed(c3, BranchError(branch, r.confidence))
                    ELSE [c3 EXCEPT !.outcome = "verdict"]

\* What the run emitted, in the words of the verdict: the forced alarm
\* (line 211), the ML alert (line 214) or the prediction box (lines 217-228),
\* the last one announced as a manual override by line 174 when the label
\* came from the sidebar
Reason(c) ==
    IF c.branch = "forced" THEN "forced_temperature"
    ELSE IF c.branch = "ml_alert" THEN "ml_high_confidence_danger"
    ELSE IF c.manual_applied THEN "manual_override"
    ELSE "ml_normal"

Verdict(c) ==
    [label |-> IF c.branch = "forced" THEN "Bahaya" ELSE c.pred,
     confidence |-> IF c.branch = "forced" THEN None ELSE c.confidence,
     reason |-> Reason(c)]

---------------------------------------------------------------------------
(* The logger: receivetopkl.py *)

\* The payloads the broker may deliver, by what json.loads and the
\* conversions of lines 70-80 make of them:
\*   "json"        an object with numeric fields, e.g. {"water_level_cm": 18}
\*   "text"        four comma-separated numbers, "18,0,0,60": json.loads
\*                 raises JSONDecodeError (extra data)
\*   "garbage"     no JSON at all: json.loads raises JSONDecodeError
\*   "nonobject"   a JSON array or number: data.get raises AttributeError
\*   "nonnumeric"  a field like "abc": float() raises ValueError
TextPayload == [fmt |-> "text", row |-> Ok95]
Malformed ==
    [fmt : {"garbage", "nonobject", "nonnumeric"}, row : {Ok95}]
WellFormed == [fmt : {"json"}, row : Readings]
Messages == WellFormed \cup {TextPayload} \cup Malformed

\* lines 70-80: json.loads and the conversions; <<>> when one of them raises
ParseMessage(msg) == IF msg.fmt = "json" THEN <<msg.row>> ELSE <<>>

\* what on_message did with the last payload: out is "writing" while to_csv
\* runs, then "Logged" (line 86) or "MQTT Error" (line 89); prev is the
\* kind of the payload before it
NotHandled == [fmt |-> "none", out |-> "none", prev |-> "none"]
Handle(msg, out) == [fmt |-> msg.fmt, out |-> out, prev |-> handled.fmt]

AppendAllowed ==
    \/ Len(log) < MaxAppend
    \/ Len(log) >= MIN_TRAIN_ROWS /\ Len(log) < MIN_TRAIN_ROWS + MaxAppend

\* the set-up without the os.path.exists test: the header is written over
\* whatever the file holds
LoggerStart_AlwaysCreate ==
    /\ ~loggerUp
    /\ loggerUp' = TRUE
    /\ csvExists' = TRUE
    /\ log' = <<>>
    /\ UNCHANGED <<mqttPc, pending, handled>>
    /\ UNCHANGED trainVars /\ UNCHANGED dashVars

\* lines 26-36 and 94-99: the header is written if the file is missing,
\* then the client starts delivering messages
LoggerStart ==
    /\ ~loggerUp
    /\ loggerUp' = TRUE
    /\ csvExists' = TRUE
    /\ log' = IF csvExists THEN log ELSE <<>>
    /\ UNCHANGED <<mqttPc, pending, handled>>
    /\ UNCHANGED trainVars /\ UNCHANGED dashVars

\* lines 116-121: CTRL+C stops the client
LoggerStop ==
    /\ loggerUp /\ mqttPc = "idle"
    /\ loggerUp' = FALSE
    /\ UNCHANGED <<csvExists, log, mqttPc, pending, handled>>
    /\ UNCHANGED trainVars /\ UNCHANGED dashVars

\* on_message up to to_csv opening the file for append (no lock is taken)
OnMessageOpen(msg) ==
    /\ loggerUp /\ mqttPc = "idle" /\ AppendAllowed
    /\ ParseMessage(msg) # <<>>
    /\ mqttPc' = "open"
    /\ pending' = ParseMessage(msg)
    /\ handled' = Handle(msg, "writing")
    /\ UNCHANGED <<csvExists, log, loggerUp>>
    /\ UNCHANGED trainVars /\ UNCHANGED dashVars

\* on_message without its except clause: the exception leaves the callback
\* and ends the client's network loop
OnMessageDrop_Raises(msg) ==
    /\ loggerUp /\ mqttPc = "idle"
    /\ ParseMessage(msg) = <<>>
    /\ handled' = Handle(msg, "raised")
    /\ loggerUp' = FALSE
    /\ UNCHANGED <<csvExists, log, mqttPc, pending>>
    /\ UNCHANGED trainVars /\ UNCHANGED dashVars

\* on_message for a payload that raises: the except clause prints
\* "MQTT Error" and returns; the client's loop goes on
OnMessageDrop(msg) ==
    /\ loggerUp /\ mqttPc = "idle"
    /\ ParseMessage(msg) = <<>>
    /\ handled' = Handle(msg, "MQTT Error")
    /\ UNCHANGED <<csvExists, log, loggerUp, mqttPc, pending>>
    /\ UNCHANGED trainVars /\ UNCHANGED dashVars

\* to_csv writes the row and closes: in one piece, or a first part of its
\* bytes becomes visible before the rest
OnMessageWrite ==
    /\ mqttPc = "open"
    /\ \/ /\ log' = Append(log, pending[1])
          /\ mqttPc' = "idle"
          /\ pending' = <<>>
          /\ handled' = [handled EXCEPT !.out = "Logged"]
       \/ /\ mqttPc' = "torn"
          /\ UNCHANGED <<log, pending, handled>>
    /\ UNCHANGED <<csvExists, loggerUp>>
    /\ UNCHANGED trainVars /\ UNCHANGED dashVars

OnMessageFinish ==
    /\ mqttPc = "torn"
    /\ log' = Append(log, pending[1])
    /\ mqttPc' = "idle"
    /\ pending' = <<>>
    /\ handled' = [handled EXCEPT !.out = "Logged"]
    /\ UNCHANGED <<csvExists, loggerUp>>
    /\ UNCHANGED trainVars /\ UNCHANGED dashVars

---------------------------------------------------------------------------
(* The trainer: retrain_model.py *)

\* load_and_preprocess_data: the rows that survive the range filter, dropna
\* and the label mapping
Trainable(rows) ==
    SelectSeq(SortByTimestamp(rows),
              LAMBDA r : InRange(r) /\ r.danger_level \in 0..2)

\* lines 45-69: too little data returns False; otherwise the model is fitted
\* and open(MODEL_FILE, "wb") truncates the artifact
RetrainStart ==
    /\ retrainPc = "idle" /\ nRetrain < MaxRetrain
    /\ csvExists
    /\ IF Len(Trainable(log)) < MIN_TRAIN_ROWS
       THEN UNCHANGED trainVars
       ELSE /\ modelFile' =
                 [st |-> "empty", kind |-> "proba", ver |-> nRetrain + 1,
                  old |-> IF modelFile.st = "complete"
                          THEN [kind |-> modelFile.kind, ver |-> modelFile.ver]
                          ELSE NoArtifact]
            /\ retrainPc' = "opened"
            /\ UNCHANGED nRetrain
    /\ UNCHANGED storeVars /\ UNCHANGED dashVars

\* line 70: pickle.dump fills the file's buffer; a part of the pickle
\* reaches the file when the buffer overflows
RetrainDump ==
    /\ retrainPc = "opened"
    /\ modelFile' = [modelFile EXCEPT !.st = "partial"]
    /\ retrainPc' = "dumped"
    /\ UNCHANGED nRetrain
    /\ UNCHANGED storeVars /\ UNCHANGED dashVars

\* the end of the with block: the rest is flushed and the file closed
RetrainClose ==
    /\ retrainPc \in {"opened", "dumped"}
    /\ modelFile' = [modelFile EXCEPT !.st = "complete"]
    /\ retrainPc' = "idle"
    /\ nRetrain' = nRetrain + 1
    /\ UNCHANGED storeVars /\ UNCHANGED dashVars

---------------------------------------------------------------------------
(* The dashboard: one run of the script app_streamlit.py *)

\* line 15: the operator types another standard water height into the
\* sidebar; the next script run reads it
SetStandardHeight(swh) ==
    /\ dashPc = "idle"
    /\ swh # STANDARD_WATER_HEIGHT
    /\ STANDARD_WATER_HEIGHT' = swh
    /\ UNCHANGED <<dashPc, df, dataCache, modelCache, tornRead, cycle>>
    /\ UNCHANGED storeVars /\ UNCHANGED trainVars

\* lines 103-122 up to the point where load_data has to read the file: the
\* cached frame is used unless its ttl has run out or "Refresh Sekarang"
\* cleared it
DashStart(refresh, expired) ==
    /\ dashPc = "idle"
    /\ tornRead' = <<>>
    /\ IF dataCache # <<>> /\ ~refresh /\ ~expired
       THEN /\ df' = dataCache[1]
            /\ dashPc' = "loaded"
            /\ cycle' = NoCycle
            /\ UNCHANGED dataCache
       ELSE /\ df' = <<>>
            /\ dataCache' = <<>>
            /\ IF csvExists
               THEN dashPc' = "reading" /\ cycle' = NoCycle
               ELSE /\ dashPc' = "idle"
                    /\ cycle' = Crashed(NoCycle, "FileNotFoundError")
    /\ UNCHANGED <<STANDARD_WATER_HEIGHT, modelCache>>
    /\ UNCHANGED storeVars /\ UNCHANGED trainVars

\* pd.read_csv and the rest of load_data; the file is read as it is now,
\* with whatever part of a row on_message has written so far
DashRead ==
    /\ dashPc = "reading"
    /\ \E seen \in (IF mqttPc = "torn" THEN {<<t>> : t \in TornRows(pending[1])}
                                       ELSE {<<>>}) :
          LET d == load_data(log \o seen, STANDARD_WATER_HEIGHT)
          IN  /\ tornRead' = seen
              /\ df' = d
              /\ dataCache' = <<d>>
    /\ dashPc' = "loaded"
    /\ UNCHANGED <<STANDARD_WATER_HEIGHT, modelCache, cycle>>
    /\ UNCHANGED storeVars /\ UNCHANGED trainVars

\* load_model is reached only past st.stop() and the status boxes
ReachesLoadModel(d) == d # <<>> /\ d[Len(d)].danger_level # NaN

\* lines 124-230
DashDecide(ov, clf) ==
    /\ dashPc = "loaded"
    /\ LET model == IF ReachesLoadModel(df)
                    THEN cached_load_model(modelCache, modelFile)
                    ELSE modelCache
       IN  /\ modelCache' = model
           /\ cycle' = Main(df, STANDARD_WATER_HEIGHT, model, ov, clf)
    /\ dashPc' = "idle"
    /\ UNCHANGED <<STANDARD_WATER_HEIGHT, df, dataCache, tornRead>>
    /\ UNCHANGED storeVars /\ UNCHANGED trainVars

---------------------------------------------------------------------------
(* Specifications *)

Artifacts ==
    {NoFile,
     [st |-> "complete", kind |-> "plain", ver |-> 0, old |-> NoArtifact],
     [st |-> "complete", kind |-> "proba", ver |-> 0, old |-> NoArtifact]}

DashInit ==
    /\ dashPc = "idle"
    /\ STANDARD_WATER_HEIGHT = DEFAULT_HEIGHT
    /\ df = <<>>
    /\ dataCache = <<>>
    /\ modelCache = NotLoaded
    /\ tornRead = <<>>
    /\ cycle = NoCycle

\* The whole system: no log yet, or the log of an earlier logger run
Init ==
    /\ \/ csvExists = FALSE /\ log = <<>>
       \/ csvExists = TRUE /\ log = BaseHistory
    /\ loggerUp = FALSE
    /\ mqttPc = "idle"
    /\ pending = <<>>
    /\ handled = NotHandled
    /\ modelFile \in Artifacts
    /\ retrainPc = "idle"
    /\ nRetrain = 0
    /\ DashInit

\* the sidebar as the operator leaves it while the system is watched as a
\* whole: untouched, or a submitted manual danger level
SystemOverrides ==
    {NoOverride, [NoOverride EXCEPT !.submit_manual = TRUE,
                                    !.manual_danger = "Waspada"]}

Dashboard(overrides) ==
    \/ \E swh \in Heights : SetStandardHeight(swh)
    \/ \E refresh \in BOOLEAN, expired \in BOOLEAN :
          DashStart(refresh, expired)
    \/ DashRead
    \/ \E ov \in overrides, clf \in ClfOutputs : DashDecide(ov, clf)

\* the logger, for the payloads the broker delivers
Logger(messages) ==
    \/ LoggerStart
    \/ LoggerStop
    \/ \E msg \in messages : OnMessageOpen(msg)
    \/ \E msg \in messages : OnMessageDrop(msg)
    \/ OnMessageWrite
    \/ OnMessageFinish

\* the payloads delivered while the system is watched as a whole
SystemMessages == WellFormed \cup {TextPayload}

Next ==
    \/ Logger(SystemMessages)
    \/ RetrainStart
    \/ RetrainDump
    \/ RetrainClose
    \/ Dashboard(SystemOverrides)

Spec == Init /\ [][Next]_vars

\* The trainer beside a running dashboard, over the log of an earlier logger
\* run.  while True: main(); time.sleep(REFRESH_INTERVAL); st.rerun() keeps
\* the script running again and again: the dashboard is weakly fair.
HotSwapInit ==
    /\ csvExists = TRUE /\ log = BaseHistory
    /\ loggerUp = FALSE
    /\ mqttPc = "idle"
    /\ pending = <<>>
    /\ handled = NotHandled
    /\ modelFile \in Artifacts
    /\ retrainPc = "idle"
    /\ nRetrain = 0
    /\ DashInit

HotSwapNext ==
    \/ RetrainStart
    \/ RetrainDump
    \/ RetrainClose
    \/ Dashboard({NoOverride})

HotSwapSpec ==
    HotSwapInit /\ [][HotSwapNext]_vars /\ WF_vars(Dashboard({NoOverride}))

\* The decision pipeline alone, over every short history, the log of an
\* earlier logger run, and every sidebar
Histories == UNION {[1..n -> Readings] : n \in 0..MaxHist} \cup {BaseHistory}

PipelineInit ==
    /\ csvExists = TRUE
    /\ log \in Histories
    /\ loggerUp = FALSE
    /\ mqttPc = "idle"
    /\ pending = <<>>
    /\ handled = NotHandled
    /\ modelFile \in Artifacts
    /\ retrainPc = "idle"
    /\ nRetrain = 0
    /\ DashInit

PipelineNext == Dashboard(OverrideSets)

PipelineSpec == PipelineInit /\ [][PipelineNext]_vars

\* The dashboard over every log of up to MaxLog rows, in every append
\* order, with a probabilistic model and the default standard height
Logs == UNION {[1..n -> LogReadings] : n \in 0..MaxLog}

\* the sidebar left alone, a submitted manual water level, values typed in
\* but not submitted, and a submitted manual temperature with a manual label
FeatureOverrides ==
    {NoOverride,
     [NoOverride EXCEPT !.submit_manual = TRUE,
                        !.manual_water_level = Some(40)],
     [NoOverride EXCEPT !.manual_water_level = Some(40),
                        !.manual_temp = Some(75),
                        !.manual_danger = "Bahaya"],
     [NoOverride EXCEPT !.submit_manual = TRUE,
                        !.manual_temp = Some(75),
                        !.manual_danger = "Aman"]}

FeatureInit ==
    /\ csvExists = TRUE
    /\ log \in Logs
    /\ loggerUp = FALSE
    /\ mqttPc = "idle"
    /\ pending = <<>>
    /\ handled = NotHandled
    /\ modelFile = [st |-> "complete", kind |-> "proba", ver |-> 0,
                    old |-> NoArtifact]
    /\ retrainPc = "idle"
    /\ nRetrain = 0
    /\ DashInit

FeatureNext ==
    \/ \E refresh \in BOOLEAN, expired \in BOOLEAN :
          DashStart(refresh, expired)
    \/ DashRead
    \/ \E ov \in FeatureOverrides, clf \in ClfOutputs : DashDecide(ov, clf)

FeatureSpec == FeatureInit /\ [][FeatureNext]_vars

\* The logger alone, with every kind of payload
LoggerNext == Logger(Messages)

LoggerSpec == Init /\ [][LoggerNext]_vars

\* Everything that touches the reading log: the logger, the trainer and a
\* dashboard whose sidebar is left alone and whose classifier gives one of
\* two answers
StoreClf == {[label |-> "Aman", conf |-> 50], [label |-> "Bahaya", conf |-> 81]}

StoreNext ==
    \/ Logger(SystemMessages)
    \/ RetrainStart
    \/ RetrainDump
    \/ RetrainClose
    \/ \E refresh \in BOOLEAN, expired \in BOOLEAN :
          DashStart(refresh, expired)
    \/ DashRead
    \/ \E clf \in StoreClf : DashDecide(NoOverride, clf)

StoreSpec == Init /\ [][StoreNext]_vars

---------------------------------------------------------------------------
(* Properties *)

\* a script run has ended and computed the temperature it compares with 70
Resolved == dashPc = "idle" /\ cycle.temp_for_pred # None

\* a manual danger level was submitted in the last run
ManualLabel == cycle.ov.submit_manual /\ cycle.ov.manual_danger # "None"

\* the frame's last row, the sensor-derived values of the last run
SensorRow == df[Len(df)]

\* C1: with a loaded classifier, whenever the temperature compared with 70
\* is above 70 the run takes the forced-alarm branch and emits
\* (Bahaya, no confidence, forced_temperature), whatever the classifier
\* answered and whatever was submitted in the sidebar.
C1_ForcedTemperatureWins ==
    (Resolved /\ cycle.model.kind # "none"
        /\ cycle.temp_for_pred[1] > TEMP_ALARM)
    => /\ cycle.outcome = "verdict"
       /\ cycle.branch = "forced"
       /\ Verdict(cycle) = [label |-> "Bahaya", confidence |-> None,
                            reason |-> "forced_temperature"]

\* a submitted manual label Aman together with a manual temperature of 75
C1_Witness ==
    /\ Resolved /\ ManualLabel
    /\ cycle.ov.manual_danger = "Aman"
    /\ cycle.temp_for_pred = Some(75)
    /\ cycle.branch = "forced"

\* C2: a submitted manual danger level with a temperature of at most 70
\* yields the verdict (that level, no confidence, manual_override).
C2_ManualLabelWins ==
    (Resolved /\ ManualLabel /\ cycle.temp_for_pred[1] <= TEMP_ALARM)
    => /\ cycle.outcome = "verdict"
       /\ Verdict(cycle) = [label |-> cycle.ov.manual_danger,
                            confidence |-> None,
                            reason |-> "manual_override"]

\* the temperature the override resolver of the specification yields
ResolvedTemp ==
    IF cycle.ov.submit_manual /\ cycle.ov.manual_temp # None
    THEN cycle.ov.manual_temp[1] ELSE SensorRow.temperature_c

\* C3: without a loadable artifact a run over a valid reading still emits
\* the forced alarm above 70 degrees, else the manual verdict when a manual
\* level was submitted, and reports "unavailable" only otherwise.
C3_RulesNeedNoModel ==
    (dashPc = "idle" /\ cycle.outcome \notin {"none", "waiting"}
        /\ df # <<>> /\ cycle.model = NoModel)
    => IF ResolvedTemp > TEMP_ALARM
       THEN /\ cycle.outcome = "verdict"
            /\ Reason(cycle) = "forced_temperature"
       ELSE IF ManualLabel
       THEN /\ cycle.outcome = "verdict"
            /\ Reason(cycle) = "manual_override"
       ELSE cycle.outcome = "unavailable"

\* C4: in a run that resolved its inputs, every submitted field is the value
\* used (water level, temperature, humidity, rain) and every other field is
\* the sensor-derived one.
C4_FieldByField ==
    (Resolved /\ cycle.latest # None)
    => LET ov == cycle.ov
           l == cycle.latest[1]
           s == Features(SensorRow)
           on(f) == ov.submit_manual /\ f # None
       IN  /\ IF on(ov.manual_water_level)
              THEN l.water_level_norm.num = ov.manual_water_level[1]
              ELSE /\ l.water_level_norm = s.water_level_norm
                   /\ l.water_rise_rate = s.water_rise_rate
           /\ l.humidity_pct = IF on(ov.manual_humidity)
                               THEN ov.manual_humidity[1] ELSE s.humidity_pct
           /\ l.rain = IF on(ov.manual_rain)
                       THEN ov.manual_rain[1] ELSE s.rain
           /\ cycle.temp_for_pred[1] =
                 IF on(ov.manual_temp)
                 THEN ov.manual_temp[1] ELSE SensorRow.temperature_c

\* C5: at 70 degrees or less and without a manual label, a probabilistic
\* classifier's Bahaya is an ML alert exactly when its confidence is above
\* 0.8; at 0.8 or below, and for Aman and Waspada at any confidence, the
\* verdict is (label, confidence, ml_normal).
C5_HighConfidenceGateStrict ==
    (Resolved /\ ~ManualLabel /\ cycle.model.kind = "proba"
        /\ cycle.temp_for_pred[1] <= TEMP_ALARM)
    => /\ cycle.outcome = "verdict"
       /\ Verdict(cycle) =
            [label |-> cycle.pred, confidence |-> cycle.confidence,
             reason |-> IF cycle.pred = "Bahaya"
                           /\ cycle.confidence[1] > CONF_GATE
                        THEN "ml_high_confidence_danger" ELSE "ml_normal"]

\* Bahaya at a confidence of exactly 0.8 is reported as an ordinary prediction
C5_Witness ==
    /\ Resolved /\ ~ManualLabel /\ cycle.model.kind = "proba"
    /\ cycle.pred = "Bahaya" /\ cycle.confidence = Some(CONF_GATE)
    /\ cycle.outcome = "verdict" /\ Reason(cycle) = "ml_normal"

\* C6: at 70 degrees or less and without a manual label, a plain classifier's
\* Bahaya is emitted as (Bahaya, no confidence, ml_high_confidence_danger)
\* and the run completes.
C6_PlainDangerTrusted ==
    (Resolved /\ ~ManualLabel /\ cycle.model.kind = "plain"
        /\ cycle.pred = "Bahaya" /\ cycle.temp_for_pred[1] <= TEMP_ALARM)
    => /\ cycle.outcome = "verdict"
       /\ Verdict(cycle) = [label |-> "Bahaya", confidence |-> None,
                            reason |-> "ml_high_confidence_danger"]

\* C7: every run ends waiting, unavailable, or with one verdict of one
\* reason; no run aborts with an unhandled error.
C7_ExactlyOneOutcome ==
    (dashPc = "idle" /\ cycle.outcome # "none")
    => /\ cycle.outcome \in {"waiting", "unavailable", "verdict"}
       /\ cycle.error = "none"
       /\ cycle.outcome = "verdict" <=> cycle.branch # "none"

\* C8: on_message's append and load_data's read never overlap, and the
\* reader never sees a partly written row.
C8_StoreMutualExclusion ==
    /\ ~(dashPc = "reading" /\ mqttPc \in {"open", "torn"})
    /\ tornRead = <<>>

\* retrain_model has finished writing a new artifact
Retrained ==
    retrainPc = "idle" /\ modelFile.st = "complete" /\ modelFile.ver > 0

\* C9: once retrain_model has finished writing a new artifact, a later run
\* of the dashboard predicts with that model.
C9_HotSwap ==
    Retrained ~> (dashPc = "idle" /\ cycle.model.kind # "none"
                    /\ cycle.model.ver = modelFile.ver)

\* C10: whenever load_model reads the artifact, also while retrain_model is
\* writing it, it returns the complete model the file held before the write
\* or the complete model being written.
C10_AtomicReplacement ==
    [][(~modelCache.loaded /\ modelCache'.loaded)
        => modelCache' \in
             {[loaded |-> TRUE, kind |-> modelFile.old.kind,
               ver |-> modelFile.old.ver],
              [loaded |-> TRUE, kind |-> modelFile.kind,
               ver |-> modelFile.ver]}]_vars

\* a reading that passes the range check of the specification
ValidReading(r) ==
    /\ r.water_level_cm \in WATER_MIN..WATER_MAX
    /\ r.temperature_c \in TEMP_MIN..TEMP_MAX
    /\ r.humidity_pct \in HUM_MIN..HUM_MAX

\* the rows of the log that are valid readings
ValidRows == {i \in 1..Len(log) : ValidReading(log[i])}

\* C11: the frame holds the valid readings only; with one valid reading the
\* rise rate is 0, with two or more the latest row's rise rate is the water
\* level of the latest valid reading minus that of the second latest, by
\* timestamp, whatever the append order and whatever invalid rows lie between.
C11_RiseRateFromValidReadings ==
    dashPc = "loaded"
    => /\ Len(df) = Cardinality(ValidRows)
       /\ Cardinality(ValidRows) = 1 => df[1].water_rise_rate = 0
       /\ Cardinality(ValidRows) >= 2 =>
            \E i \in ValidRows : \E j \in ValidRows \ {i} :
                /\ \A k \in ValidRows :
                      log[k].timestamp <= log[i].timestamp
                /\ \A k \in ValidRows \ {i} :
                      log[k].timestamp <= log[j].timestamp
                /\ df[Len(df)].water_rise_rate =
                      log[i].water_level_cm - log[j].water_level_cm

\* a log appended out of order with an invalid row stamped between the two
\* valid ones: the rise rate is 20 - 18
C11_Witness ==
    /\ dashPc = "loaded"
    /\ log = <<Ok105, Bad100, Ok95>>
    /\ Len(df) = 2
    /\ df[2].water_rise_rate = 2

\* on_message has just returned from a payload of one of the kinds in fmts
Returned(fmts) ==
    /\ handled' # handled
    /\ handled'.fmt \in fmts
    /\ handled'.out # "writing"

\* C12: a payload of four comma-separated numbers that fails JSON parsing
\* makes on_message append exactly one row carrying its values.
C12_PlainTextAccepted ==
    [][Returned({"text"})
        => /\ handled'.out = "Logged"
           /\ log' = Append(log, TextPayload.row)]_vars

\* C13: a payload that cannot be parsed into a reading (no JSON, JSON that
\* is no object, a field that is no number) leaves the log and the file as
\* they were, does not raise, and leaves the client taking messages.
C13_MalformedDropped ==
    [][Returned({"garbage", "nonobject", "nonnumeric"})
        => /\ log' = log /\ csvExists' = csvExists
           /\ pending' = pending
           /\ handled'.out = "MQTT Error"
           /\ loggerUp' /\ mqttPc' = "idle"]_vars

\* a well-formed payload logged right after a malformed one was dropped
C13_Witness ==
    /\ handled.prev \in {"garbage", "nonobject", "nonnumeric"}
    /\ handled.fmt = "json" /\ handled.out = "Logged"
    /\ log # <<>> /\ log[Len(log)] \in Readings

\* C14: every step leaves the rows of the log as a prefix of the log after
\* it and never removes the file; the set-up writes the header only when
\* the file is missing; a parsed payload adds exactly one row, its own.
C14_AppendOnly ==
    [][/\ Len(log) <= Len(log')
       /\ SubSeq(log', 1, Len(log)) = log
       /\ csvExists => csvExists'
       /\ (handled' # handled /\ handled'.out = "Logged")
            => log' = Append(log, pending[1])
       /\ log' # log => (handled' # handled /\ handled'.out = "Logged")]_vars

\* a row appended to the log an earlier logger run left, after a restart of
\* the logger, a retraining run and a dashboard cycle
C14_Witness ==
    /\ Len(log) = MIN_TRAIN_ROWS + 1
    /\ SubSeq(log, 1, MIN_TRAIN_ROWS) = BaseHistory
    /\ handled.out = "Logged"
    /\ nRetrain > 0
    /\ dashPc = "idle" /\ cycle.outcome # "none"

\* C15: no standard water height the sidebar accepts makes a script run
\* divide by 0 or less: not in load_data's water_level_norm, not in the
\* manual water level's.
C15_DivisorPositive ==
    /\ \A i \in 1..Len(df) : df[i].water_level_norm.den > 0
    /\ cycle.latest # None => cycle.latest[1].water_level_norm.den > 0
    /\ cycle.error # "ZeroDivisionError"

\* a script run that went past st.stop() has ended
Ran == dashPc = "idle" /\ cycle.outcome \notin {"none", "waiting"}

\* the valid reading with the latest timestamp, and the one before it
LatestValid ==
    CHOOSE i \in ValidRows :
        \A k \in ValidRows : log[k].timestamp <= log[i].timestamp
SecondLatestValid ==
    CHOOSE j \in ValidRows \ {LatestValid} :
        \A k \in ValidRows \ {LatestValid} :
            log[k].timestamp <= log[j].timestamp

\* C16: in a run that reaches the estimator, with the threshold at 35, an
\* estimate is shown exactly when the latest rise rate is above 0 and the
\* latest level below the threshold, and is (35 - level) / rate * 60; the
\* branch of the verdict depends on temperature, label and confidence only.
C16_HorizonEstimate ==
    (Ran /\ cycle.model.kind # "none")
    => LET level == log[LatestValid].water_level_cm
           rate == IF Cardinality(ValidRows) >= 2
                   THEN level - log[SecondLatestValid].water_level_cm
                   ELSE 0
       IN  /\ IF rate > 0 /\ level < 35
              THEN /\ cycle.horizon # None
                   /\ cycle.horizon[1].den > 0
                   /\ cycle.horizon[1].num = (35 - level) * 60
                   /\ cycle.horizon[1].den = rate
              ELSE cycle.horizon = None
           /\ cycle.branch =
                 IF cycle.temp_for_pred[1] > 70 THEN "forced"
                 ELSE IF cycle.pred = "Bahaya"
                         /\ (cycle.confidence = None
                             \/ cycle.confidence[1] > 80)
                      THEN "ml_alert"
                 ELSE "prediction"

\* level 20 rising by 2: the estimate is 450 minutes
C16_Witness ==
    /\ Ran /\ cycle.outcome = "verdict"
    /\ SensorRow.water_level_cm = 20 /\ SensorRow.water_rise_rate = 2
    /\ cycle.horizon # None
    /\ cycle.horizon[1].num = 450 * cycle.horizon[1].den

\* C17: a submitted manual water level gives water_level_norm as that level
\* over the standard height and water_rise_rate as that level minus the
\* level of the valid reading before the latest one, 0 when the log holds
\* one valid reading only.
C17_ManualWaterRecomputes ==
    (Ran /\ cycle.ov.submit_manual /\ cycle.ov.manual_water_level # None)
    => /\ cycle.latest # None
       /\ cycle.latest[1].water_level_norm =
            [num |-> cycle.ov.manual_water_level[1], den |-> cycle.swh]
       /\ cycle.latest[1].water_rise_rate =
            IF Cardinality(ValidRows) >= 2
            THEN cycle.ov.manual_water_level[1]
                    - log[SecondLatestValid].water_level_cm
            ELSE 0

\* a manual level of 40 over the readings 18 and 20: the rise rate is 22,
\* not the sensor's 2
C17_Witness ==
    /\ Ran /\ cycle.ov.submit_manual
    /\ cycle.ov.manual_water_level = Some(40)
    /\ SensorRow.water_rise_rate = 2
    /\ cycle.latest # None
    /\ cycle.latest[1].water_rise_rate = 22
    /\ cycle.latest[1].water_level_norm = [num |-> 40, den |-> 50]

\* C18: the temperature compared with 70 lies in [-10, 80], so the forced
\* alarm is raised between 71 and 80 only; without a manual temperature it
\* is the temperature of the latest valid reading, so a newer reading above
\* 80 is left out and the verdict comes from the valid reading before it.
C18_TemperatureInRange ==
    Resolved
    => /\ cycle.temp_for_pred[1] \in (0 - 10)..80
       /\ cycle.branch = "forced" => cycle.temp_for_pred[1] \in 71..80
       /\ ~(cycle.ov.submit_manual /\ cycle.ov.manual_temp # None)
            => cycle.temp_for_pred[1] = log[LatestValid].temperature_c

\* the newest reading shows 85 degrees: the run decides on the reading
\* before it and raises no forced alarm
C18_Witness ==
    /\ Resolved /\ cycle.outcome = "verdict"
    /\ Len(log) = 2 /\ log[2] = Bad115 /\ log[1] = Ok105
    /\ cycle.temp_for_pred = Some(25)
    /\ cycle.branch # "forced"

\* C19: in a run without the submit button pressed nothing typed into the
\* sidebar is used: no manual label is applied, the features and the
\* temperature are the sensor's, and the run ends as it would with every
\* override field empty.
C19_OverridesNeedSubmit ==
    (dashPc = "idle" /\ cycle.outcome # "none" /\ ~cycle.ov.submit_manual)
    => /\ ~cycle.manual_applied
       /\ cycle.latest # None => cycle.latest[1] = Features(SensorRow)
       /\ cycle.temp_for_pred # None
            => cycle.temp_for_pred[1] = SensorRow.temperature_c
       /\ \E clf \in ClfOutputs :
             cycle = [Main(df, cycle.swh, cycle.model, NoOverride, clf)
                        EXCEPT !.ov = cycle.ov]

\* a manual label Bahaya, a manual temperature of 75 and a manual water
\* level are typed in but not submitted: the classifier's Aman is the verdict
C19_Witness ==
    /\ dashPc = "idle" /\ cycle.outcome = "verdict"
    /\ ~cycle.ov.submit_manual
    /\ cycle.ov.manual_danger = "Bahaya"
    /\ cycle.ov.manual_temp = Some(75)
    /\ cycle.ov.manual_water_level = Some(40)
    /\ Verdict(cycle).label = "Aman"
    /\ Verdict(cycle).reason = "ml_normal"

====
